---- MODULE Spec2Model ----
(***************************************************************************)
(* Model of the portfolio optimizer of src/portfolio_optimizer.ipynb: the  *)
(* log-return pipeline, the statistics (np.nanmean, np.cov), the Monte     *)
(* Carlo sampler compute_random_allocations, the frontier sweep            *)
(* compute_frontier and the cached find_best_allocation.                   *)
(*                                                                         *)
(* Numbers.  A float is an extended rational, a record [k, n, d]:          *)
(*   k = "fin"   the rational n/d in lowest terms, d > 0                   *)
(*   k = "inf"   +infinity (n = 1) or -infinity (n = -1)                   *)
(*   k = "nan"   not a number                                              *)
(*   k = "none"  Python's None (only as an argument of find_best_...)      *)
(*   k = "sqrt"  the square root of the rational n/d >= 0 (a volatility)   *)
(*   k = "quot"  sign(n) * sqrt(|n|/d): a rational over a square root      *)
(* Arithmetic follows IEEE-754 as numpy applies it: dividing by zero and   *)
(* operating on nan give inf or nan (with a RuntimeWarning), never an      *)
(* exception.  Rounding is not modelled: finite results are exact.         *)
(* Prices are powers of two, zero or missing, so that the logarithm of a   *)
(* price ratio is exact in units of ln 2.  A value that a state holds      *)
(* before the operation producing it has run is a record [made |-> FALSE]. *)
(***************************************************************************)
EXTENDS Integers, Sequences, FiniteSets, TLC

VARIABLES
    selected_stocks,     \* the price table: a sequence of columns, one per asset
    stats,               \* the statistics last computed from log_return
    metrics,             \* the array get_ret_vol_sr returned
    df,                  \* the DataFrame compute_random_allocations returned
    frontier,            \* the DataFrame compute_frontier returned
    closest_allocation,  \* the Series find_best_allocation returned last
    cache,               \* pn.cache's store of find_best_allocation
    slsqp,               \* scipy's answer to each problem posed so far
    solver_log,          \* the runs of minimize made by the last request
    solver_calls,        \* how many times find_best_allocation's body ran minimize
    returned,            \* every (key, value) find_best_allocation has returned
    calls,               \* how many times find_best_allocation was called
    request,             \* the operation last called and its arguments
    raised               \* the exception the last operation raised, or "none"

vars == << selected_stocks, stats, metrics, df, frontier, closest_allocation,
           cache, slsqp, solver_log, solver_calls, returned, calls, request,
           raised >>

(***************************************************************************)
(* Bounds of the model.                                                    *)
(***************************************************************************)
MaxAssets == 2
MaxRows == 4
MaxPorts == 2
RawGrid == 2
MaxPoints == 3
MaxCalls == 2

(***************************************************************************)
(* Extended rational arithmetic.                                           *)
(***************************************************************************)
Abs(i) == IF i < 0 THEN -i ELSE i

Sgn(i) == IF i < 0 THEN -1 ELSE IF i = 0 THEN 0 ELSE 1

RECURSIVE GCD(_, _)
GCD(a, b) == IF b = 0 THEN a ELSE GCD(b, a % b)

NaN == [k |-> "nan", n |-> 0, d |-> 1]

PosInf == [k |-> "inf", n |-> 1, d |-> 1]

NegInf == [k |-> "inf", n |-> -1, d |-> 1]

None == [k |-> "none", n |-> 0, d |-> 1]

\* The rational n/d (d # 0) in lowest terms.
Fin(n, d) ==
    LET g == GCD(Abs(n), Abs(d))
    IN  [k |-> "fin", n |-> (Sgn(d) * n) \div g, d |-> Abs(d) \div g]

Zero == Fin(0, 1)

One == Fin(1, 1)

IsFinite(x) == x.k \in {"fin", "sqrt", "quot"}

IsNaN(x) == x.k = "nan"

IsZero(x) == IsFinite(x) /\ x.n = 0

Inf(s) == IF s < 0 THEN NegInf ELSE PosInf

Neg(x) == IF x.k = "nan" THEN NaN ELSE [x EXCEPT !.n = -x.n]

Add(x, y) ==
    IF x.k = "nan" \/ y.k = "nan" THEN NaN
    ELSE IF x.k = "inf" /\ y.k = "inf" THEN (IF x.n = y.n THEN x ELSE NaN)
    ELSE IF x.k = "inf" THEN x
    ELSE IF y.k = "inf" THEN y
    ELSE Fin(x.n * y.d + y.n * x.d, x.d * y.d)

Sub(x, y) == Add(x, Neg(y))

Mul(x, y) ==
    IF x.k = "nan" \/ y.k = "nan" THEN NaN
    ELSE IF x.k = "inf" \/ y.k = "inf"
         THEN (IF x.n = 0 \/ y.n = 0 THEN NaN ELSE Inf(Sgn(x.n) * Sgn(y.n)))
    ELSE Fin(x.n * y.n, x.d * y.d)

\* numpy's true_divide on floats: x/0 is inf or nan, never an exception.
Div(x, y) ==
    IF x.k = "nan" \/ y.k = "nan" THEN NaN
    ELSE IF x.k = "inf" /\ y.k = "inf" THEN NaN
    ELSE IF x.k = "inf" THEN Inf(x.n * (IF y.n < 0 THEN -1 ELSE 1))
    ELSE IF y.k = "inf" THEN Zero
    ELSE IF y.n = 0 THEN (IF x.n = 0 THEN NaN ELSE Inf(x.n))
    ELSE Fin(x.n * y.d, x.d * y.n)

\* x < y and x <= y on floats: any comparison with nan is false.
Less(x, y) ==
    /\ x.k # "nan" /\ y.k # "nan"
    /\ IF x.k = "inf" THEN x.n < 0 /\ y # x
       ELSE IF y.k = "inf" THEN y.n > 0
       ELSE x.n * y.d < y.n * x.d

LessEq(x, y) == x.k # "nan" /\ y.k # "nan" /\ (x = y \/ Less(x, y))

\* np.sqrt: nan for nan and for negatives, the root otherwise.
Sqrt(x) ==
    IF x.k = "nan" \/ x.n < 0 THEN NaN
    ELSE IF x.k = "inf" THEN PosInf
    ELSE [k |-> "sqrt", n |-> x.n, d |-> x.d]

\* x / v for a rational x and a root v = sqrt(q).
DivRoot(x, v) ==
    IF x.k = "nan" \/ v.k = "nan" THEN NaN
    ELSE IF x.k = "inf" /\ v.k = "inf" THEN NaN
    ELSE IF x.k = "inf" THEN x
    ELSE IF v.k = "inf" THEN Zero
    ELSE IF v.n = 0 THEN (IF x.n = 0 THEN NaN ELSE Inf(x.n))
    ELSE LET q == Fin(x.n * x.n * v.d, x.d * x.d * v.n)
         IN  [k |-> "quot", n |-> Sgn(x.n) * q.n, d |-> q.d]

\* log2 of a positive rational that is a power of two.
RECURSIVE Log2(_, _)
Log2(n, d) ==
    IF n = d THEN 0
    ELSE IF n > d THEN 1 + Log2(n, 2 * d)
    ELSE Log2(2 * n, d) - 1

\* np.log, in units of ln 2.
Log(x) ==
    IF x.k = "nan" THEN NaN
    ELSE IF x.k = "inf" THEN (IF x.n > 0 THEN PosInf ELSE NaN)
    ELSE IF x.n < 0 THEN NaN
    ELSE IF x.n = 0 THEN NegInf
    ELSE Fin(Log2(x.n, x.d), 1)

\* The sequence s with its elements computed (TLC keeps a function
\* constructor unevaluated and would compute an element at every use).
Array(s) == s \o << >>

RECURSIVE Sum(_)
Sum(s) == IF s = << >> THEN Zero ELSE Add(Head(s), Sum(Tail(s)))

(***************************************************************************)
(* The price table and the log returns (line 751).                         *)
(***************************************************************************)
\* A cell of the CSV: a missing price, a zero price, or the price 1 or 2.
PriceValues == {NaN, Zero, One, Fin(2, 1)}

\* Tables of nc columns and nr rows.
Tables(nc, nr) == [1..nc -> [1..nr -> PriceValues]]

ncols(t) == Len(t)

nrows(t) == IF Len(t) = 0 THEN 0 ELSE Len(t[1])

\* df.shift(1): every column moved down one row, a NaN on top.
shift(t) ==
    Array([c \in 1..Len(t) |->
              Array([r \in 1..Len(t[c]) |-> IF r = 1 THEN NaN ELSE t[c][r - 1]])])

\* np.log(selected_stocks / selected_stocks.shift(1)): as many rows as the
\* table has, the first one NaN.
log_return(t) ==
    LET prev == shift(t)
    IN  Array([c \in 1..Len(t) |->
                  Array([r \in 1..Len(t[c]) |-> Log(Div(t[c][r], prev[c][r]))])])

\* log_return[1:], the slice without the first row.
DropFirstRow(lr) == Array([c \in 1..Len(lr) |-> SubSeq(lr[c], 2, Len(lr[c]))])

(***************************************************************************)
(* Statistics: np.nanmean and np.cov.                                      *)
(***************************************************************************)
NotNaN(col) == SelectSeq(col, LAMBDA x : x.k # "nan")

\* np.nanmean(col): the mean of the entries that are not NaN (an infinite
\* entry is not NaN and stays in); NaN when none is left.
NanMean(col) == Div(Sum(NotNaN(col)), Fin(Len(NotNaN(col)), 1))

\* np.nanmean(log_return, axis=0)
mean_return(lr) == Array([c \in 1..Len(lr) |-> NanMean(lr[c])])

\* np.average of a row of observations: NaN entries are not skipped.
Average(col) == Div(Sum(col), Fin(Len(col), 1))

\* np.cov(m, rowvar=False)[a][b] with ddof = 1: sum of the products of the
\* deviations, times 1/fact where fact = max(rows - 1, 0).
CovEntry(m, a, b) ==
    LET nr   == Len(m[a])
        fact == IF nr - 1 > 0 THEN nr - 1 ELSE 0
        avga == Average(m[a])
        avgb == Average(m[b])
        devs == Array([r \in 1..nr |-> Mul(Sub(m[a][r], avga), Sub(m[b][r], avgb))])
    IN  Mul(Sum(devs), Div(One, Fin(fact, 1)))

TradingDays == 252

\* np.cov(log_return[1:], rowvar=False) * 252 as a matrix over the assets.
AnnualCov(lr) ==
    LET m == DropFirstRow(lr)
    IN  Array([a \in 1..Len(lr) |-> Array([b \in 1..Len(lr) |->
            Mul(CovEntry(m, a, b), Fin(TradingDays, 1))])])

(***************************************************************************)
(* Portfolio metrics (lines 683-690).                                      *)
(***************************************************************************)
\* check_sum(weights) = np.sum(weights) - 1
check_sum(weights) == Sub(Sum(weights), One)

\* get_return(mean_ret, weights) = np.sum(mean_ret * weights) * 252
get_return(mean_ret, weights) ==
    Mul(Sum(Array([c \in 1..Len(weights) |-> Mul(mean_ret[c], weights[c])])),
        Fin(TradingDays, 1))

\* weights^T . cov . weights
Quadratic(cov, weights) ==
    Sum(Array([a \in 1..Len(weights) |->
            Mul(weights[a],
                Sum(Array([b \in 1..Len(weights) |-> Mul(cov[a][b], weights[b])])))]))

\* get_volatility(log_ret, weights): np.cov squeezes one asset's 1x1 matrix
\* to a scalar, and np.dot with a scalar is the product, so the quadratic
\* form is the same for every number of assets.
get_volatility(log_ret, weights) == Sqrt(Quadratic(AnnualCov(log_ret), weights))

(***************************************************************************)
(* The sampler compute_random_allocations (lines 659-681).                 *)
(***************************************************************************)
\* np.random.random draws from [0, 1): the grid points j/RawGrid below 1.
RawValues == {Fin(j, RawGrid) : j \in 0..(RawGrid - 1)}

\* (weights.T / np.sum(weights, axis=1)).T for one row of raw weights.
Normalize(w) == LET total == Sum(w) IN Array([c \in 1..Len(w) |-> Div(w[c], total)])

\* Lines 672-674: np.cov of one column is 0-dimensional, its shape () is
\* falsy, and the covariance is then replaced by [[252.]].
return_covariance(lr) ==
    IF Len(lr) = 1 THEN << << Fin(TradingDays, 1) >> >> ELSE AnnualCov(lr)

\* One row of the DataFrame: the normalized weights and their metrics.
SampleRow(mean_ret, cov, w) ==
    LET nw  == Normalize(w)
        ret == get_return(mean_ret, nw)
        vol == Sqrt(Quadratic(cov, nw))
    IN  [weights |-> nw, Return |-> ret, Volatility |-> vol,
         Sharpe |-> DivRoot(ret, vol)]

NoDf == [made |-> FALSE]

\* The DataFrame of lines 668-681 for the raw weights drawn at line 666.
SampleFrame(lr, weights) ==
    LET mean_ret == mean_return(lr)
        cov      == return_covariance(lr)
    IN  [made |-> TRUE,
         rows |-> Array([p \in 1..Len(weights) |->
                            SampleRow(mean_ret, cov, weights[p])]),
         mean_return |-> mean_ret,
         log_return |-> lr]

\* The call compute_random_allocations(log_return, num_ports).  A negative
\* num_ports makes np.random.random raise ValueError; no other argument is
\* checked.
compute_random_allocations(num_ports) ==
    /\ ~df.made
    /\ request' = [op |-> "compute_random_allocations", n |-> num_ports]
    /\ IF num_ports < 0
       THEN /\ raised' = "ValueError"
            /\ df' = NoDf
       ELSE \E weights \in [1..num_ports -> [1..ncols(selected_stocks) -> RawValues]] :
                /\ raised' = "none"
                /\ df' = SampleFrame(log_return(selected_stocks), weights)
    /\ UNCHANGED << selected_stocks, stats, metrics, frontier,
                    closest_allocation, cache, slsqp, solver_log, solver_calls,
                    returned, calls >>

(***************************************************************************)
(* The statistics of a price table: the mean and the covariance that       *)
(* compute_random_allocations (lines 663, 672-674) and get_volatility      *)
(* (line 690) compute from the log returns.  Nothing is validated and      *)
(* nothing is raised.                                                      *)
(***************************************************************************)
NoStats == [made |-> FALSE]

Estimate ==
    /\ ~stats.made
    /\ request' = [op |-> "estimate", n |-> nrows(selected_stocks)]
    /\ raised' = "none"
    /\ stats' = [made |-> TRUE,
                 mean_return |-> mean_return(log_return(selected_stocks)),
                 return_covariance |-> return_covariance(log_return(selected_stocks)),
                 covariance |-> AnnualCov(log_return(selected_stocks)),
                 observations |-> nrows(DropFirstRow(log_return(selected_stocks)))]
    /\ UNCHANGED << selected_stocks, metrics, df, frontier, closest_allocation,
                    cache, slsqp, solver_log, solver_calls, returned, calls >>

(***************************************************************************)
(* The metrics function get_ret_vol_sr (lines 368-376), on the global      *)
(* log_ret with pandas' mean() and cov().                                  *)
(***************************************************************************)
\* The rows where neither column a nor column b is NaN.
RECURSIVE PairRows(_, _, _)
PairRows(m, a, b) ==
    IF m[a] = << >> THEN << >>
    ELSE LET rest == PairRows(Array([c \in 1..Len(m) |-> Tail(m[c])]), a, b)
         IN  IF Head(m[a]).k = "nan" \/ Head(m[b]).k = "nan"
             THEN rest
             ELSE << << Head(m[a]), Head(m[b]) >> >> \o rest

\* DataFrame.cov()[a][b]: pairwise-complete observations, ddof = 1, NaN when
\* fewer than two observations are left.
PandasCovEntry(m, a, b) ==
    LET rows == PairRows(m, a, b)
        nobs == Len(rows)
        xs   == Array([r \in 1..nobs |-> rows[r][1]])
        ys   == Array([r \in 1..nobs |-> rows[r][2]])
        avgx == Average(xs)
        avgy == Average(ys)
        devs == Array([r \in 1..nobs |-> Mul(Sub(xs[r], avgx), Sub(ys[r], avgy))])
    IN  IF nobs < 2 THEN NaN ELSE Div(Sum(devs), Fin(nobs - 1, 1))

\* log_ret.cov() * 252
PandasAnnualCov(lr) ==
    Array([a \in 1..Len(lr) |-> Array([b \in 1..Len(lr) |->
        Mul(PandasCovEntry(lr, a, b), Fin(TradingDays, 1))])])

NoMetrics == [made |-> FALSE]

\* Weights a caller may pass: not necessarily normalized.
MetricWeights == RawValues \cup {One}

\* get_ret_vol_sr(weights): sr = ret/vol is a float division, which gives
\* inf or nan for vol = 0 and raises nothing.
get_ret_vol_sr(weights) ==
    /\ ~metrics.made
    /\ LET lr  == log_return(selected_stocks)
           ret == get_return(mean_return(lr), weights)
           vol == Sqrt(Quadratic(PandasAnnualCov(lr), weights))
       IN  /\ metrics' = [made |-> TRUE, weights |-> weights, ret |-> ret,
                          vol |-> vol, sr |-> DivRoot(ret, vol)]
           /\ request' = [op |-> "get_ret_vol_sr", n |-> Len(weights)]
           /\ raised' = "none"
    /\ UNCHANGED << selected_stocks, stats, df, frontier, closest_allocation,
                    cache, slsqp, solver_log, solver_calls, returned, calls >>

(***************************************************************************)
(* scipy.optimize.minimize.  The solver is deterministic and otherwise     *)
(* unknown: slsqp records the answer it gave to each problem posed so far, *)
(* a new problem gets any answer, and a problem posed again gets the       *)
(* answer it got before.  An answer is the point x and the success flag;   *)
(* nothing is assumed of x beyond being a weight vector.                   *)
(***************************************************************************)
\* [1./cols for i in range(cols)]
init_guess(cols) == Array([i \in 1..cols |-> Fin(1, cols)])

\* tuple((0, 1) for i in range(cols))
bounds(cols) == Array([i \in 1..cols |-> << Zero, One >>])

\* The points the solver may stop at: the initial guess or a corner.
SolverPoints(cols) ==
    {init_guess(cols), Array([i \in 1..cols |-> IF i = 1 THEN One ELSE Zero])}

SolverAnswers(cols) == [x : SolverPoints(cols), success : BOOLEAN]

\* The answers to the problems of P that agree with the answers given so far.
Answers(P, cols) ==
    {f \in [P -> SolverAnswers(cols)] :
        \A q \in P \cap DOMAIN slsqp : f[q] = slsqp[q]}

\* slsqp with the answers f added.
Learn(f) ==
    [q \in DOMAIN slsqp \cup DOMAIN f |->
        IF q \in DOMAIN slsqp THEN slsqp[q] ELSE f[q]]

(***************************************************************************)
(* The frontier sweep compute_frontier (lines 692-706).                    *)
(***************************************************************************)
\* The Return column without its NaN entries (pandas skips them).
ReturnValues(frame) ==
    {frame.rows[p].Return : p \in {q \in DOMAIN frame.rows : frame.rows[q].Return.k # "nan"}}

\* df.Return.min() and df.Return.max(): NaN when no value is left.
ReturnMin(frame) ==
    IF ReturnValues(frame) = {} THEN NaN
    ELSE CHOOSE x \in ReturnValues(frame) : \A y \in ReturnValues(frame) : LessEq(x, y)

ReturnMax(frame) ==
    IF ReturnValues(frame) = {} THEN NaN
    ELSE CHOOSE x \in ReturnValues(frame) : \A y \in ReturnValues(frame) : LessEq(y, x)

\* np.linspace(start, stop, num) for num >= 0: num points, start + i * step,
\* the last one set to stop.
linspace(start, stop, num) ==
    LET step == Div(Sub(stop, start), Fin(num - 1, 1))
    IN  Array([i \in 1..num |->
                  IF num = 1 THEN start
                  ELSE IF i = num THEN stop
                  ELSE Add(start, Mul(Fin(i - 1, 1), step))])

\* The problem of lines 700-704 for one target return.
FrontierProblem(frame, possible_return) ==
    [fun         |-> "get_volatility",
     args        |-> << >>,
     x0          |-> init_guess(Len(frame.mean_return)),
     bounds      |-> bounds(Len(frame.mean_return)),
     constraints |-> << [type |-> "eq", fun |-> "check_sum", target |-> One],
                        [type |-> "eq", fun |-> "get_return",
                         target |-> possible_return] >>,
     log_return  |-> frame.log_return]

\* The OptimizeResult of a minimum-volatility problem: result['fun'] is the
\* objective at result.x.
FrontierResult(problem, answer) ==
    [x |-> answer.x, success |-> answer.success,
     fun |-> get_volatility(problem.log_return, answer.x)]

\* A loop that keeps the results of converged solves only.
AppendConverged(frontier_volatility, result) ==
    IF result.success THEN Append(frontier_volatility, result.fun)
    ELSE frontier_volatility

\* Line 705: frontier_volatility.append(result['fun']), converged or not.
AppendResult(frontier_volatility, result) ==
    Append(frontier_volatility, result.fun)

\* The loop of lines 699-705 over the first i results.
RECURSIVE FrontierLoop(_, _)
FrontierLoop(results, i) ==
    IF i = 0 THEN << >>
    ELSE AppendResult(FrontierLoop(results, i - 1), results[i])

\* The call compute_frontier(df, n).  np.linspace raises ValueError for a
\* negative n; no other argument is checked.
compute_frontier(n) ==
    /\ df.made
    /\ ~frontier.made
    /\ request' = [op |-> "compute_frontier", n |-> n]
    /\ IF n < 0
       THEN /\ raised' = "ValueError"
            /\ UNCHANGED << frontier, slsqp >>
            /\ solver_log' = << >>
       ELSE LET frontier_ret == linspace(ReturnMin(df), ReturnMax(df), n)
                problems == Array([i \in 1..n |->
                                      FrontierProblem(df, frontier_ret[i])])
            IN  \E f \in Answers({problems[i] : i \in 1..n}, Len(df.mean_return)) :
                    LET results == Array([i \in 1..n |->
                                       FrontierResult(problems[i], f[problems[i]])])
                    IN  /\ raised' = "none"
                        /\ slsqp' = Learn(f)
                        /\ solver_log' = Array([i \in 1..n |->
                               [problem |-> problems[i],
                                success |-> results[i].success]])
                        /\ frontier' = [made |-> TRUE,
                                        Volatility |-> FrontierLoop(results, n),
                                        Return |-> frontier_ret]
    /\ UNCHANGED << selected_stocks, stats, metrics, df, closest_allocation,
                    cache, solver_calls, returned, calls >>

(***************************************************************************)
(* The cached finder find_best_allocation (lines 713-732).                 *)
(***************************************************************************)
\* An argument passed on as it is, None included.
AsPassed(v) == v

\* `v or 0': None and 0 are falsy and give 0, every other number is kept.
OrZero(v) == IF v.k = "none" \/ IsZero(v) THEN Zero ELSE v

\* Lines 715-729: the problem handed to minimize.  The three equality
\* constraints are always there.
FindBestProblem(lr, vol, ret) ==
    [fun         |-> "minimize_difference",
     args        |-> << OrZero(vol), OrZero(ret) >>,
     x0          |-> init_guess(Len(lr)),
     bounds      |-> bounds(Len(lr)),
     constraints |-> << [type |-> "eq", fun |-> "check_sum", target |-> One],
                        [type |-> "eq", fun |-> "get_return",
                         target |-> OrZero(ret)],
                        [type |-> "eq", fun |-> "get_volatility",
                         target |-> OrZero(vol)] >>,
     log_return  |-> lr]

\* Lines 730-732: the Series of opt.x, its return and its volatility.
BestSeries(lr, answer) ==
    [made       |-> TRUE,
     weights    |-> answer.x,
     Return     |-> get_return(mean_return(lr), answer.x),
     Volatility |-> get_volatility(lr, answer.x)]

\* pn.cache keys a call by the hash of its arguments as they are passed.
CacheKey(lr, vol, ret) == << lr, vol, ret >>

\* A store that never answers: every call runs the function body.
NeverHit(key) == FALSE

\* pn.cache returns the stored value of a key it holds.
CacheHit(key) == key \in DOMAIN cache

\* A store of one entry: adding a key evicts every other one.
StoreLast(key, value) == [q \in {key} |-> value]

\* pn.cache without max_items or ttl: an entry is added, none is evicted.
Store(key, value) ==
    [q \in DOMAIN cache \cup {key} |-> IF q = key THEN value ELSE cache[q]]

\* The reactive call find_best_allocation(log_return, posxy.x, posxy.y) for
\* the table t the user selected and the point tapped.
find_best_allocation(t, vol, ret) ==
    /\ calls < MaxCalls
    /\ calls' = calls + 1
    /\ selected_stocks' = t
    /\ request' = [op |-> "find_best_allocation", n |-> calls + 1]
    /\ raised' = "none"
    /\ LET lr  == log_return(t)
           key == CacheKey(lr, vol, ret)
       IN  IF CacheHit(key)
           THEN /\ closest_allocation' = cache[key]
                /\ returned' = returned \cup {[key |-> key, value |-> cache[key]]}
                /\ solver_log' = << >>
                /\ UNCHANGED << cache, slsqp, solver_calls >>
           ELSE LET problem == FindBestProblem(lr, vol, ret)
                IN  \E f \in Answers({problem}, Len(lr)) :
                        LET value == BestSeries(lr, f[problem])
                        IN  /\ closest_allocation' = value
                            /\ returned' = returned \cup {[key |-> key, value |-> value]}
                            /\ cache' = Store(key, value)
                            /\ slsqp' = Learn(f)
                            /\ solver_calls' = solver_calls + 1
                            /\ solver_log' = << [problem |-> problem,
                                                 success |-> f[problem].success] >>
    /\ UNCHANGED << stats, metrics, df, frontier >>

(***************************************************************************)
(* Initial states and specifications.                                      *)
(***************************************************************************)
NoFrontier == [made |-> FALSE]

NoSeries == [made |-> FALSE]

NoRequest == [op |-> "none", n |-> 0]

\* Nothing has been computed from the table t yet.
Fresh(t) ==
    /\ selected_stocks = t
    /\ stats = NoStats
    /\ metrics = NoMetrics
    /\ df = NoDf
    /\ frontier = NoFrontier
    /\ closest_allocation = NoSeries
    /\ cache = << >>
    /\ slsqp = << >>
    /\ solver_log = << >>
    /\ solver_calls = 0
    /\ returned = {}
    /\ calls = 0
    /\ request = NoRequest
    /\ raised = "none"

\* Every table of at most MaxAssets columns and MaxRows rows.
PriceTables ==
    UNION {Tables(nc, nr) : nc \in 0..MaxAssets, nr \in 0..MaxRows}

InitEstimate == \E t \in PriceTables : Fresh(t)

NextEstimate == Estimate

SpecEstimate == InitEstimate /\ [][NextEstimate]_vars

\* The tables the sampler, the frontier and the finder are run on.
ConstantAsset == << << One, One, One >> >>

SingleAsset == << << One, Fin(2, 1), Fin(2, 1) >> >>

TwoAssets == << << One, Fin(2, 1), Fin(2, 1) >>, << Fin(2, 1), One, Fin(2, 1) >> >>

MissingPrice == << << One, NaN, Fin(2, 1) >>, << Fin(2, 1), Fin(2, 1), One >> >>

OneRow == << << One >> >>

SampleTables == {ConstantAsset, SingleAsset, TwoAssets, MissingPrice, OneRow}

InitSample == \E t \in SampleTables : Fresh(t)

NextSample ==
    \/ \E num_ports \in -1..MaxPorts : compute_random_allocations(num_ports)
    \/ \E weights \in [1..ncols(selected_stocks) -> MetricWeights] :
           get_ret_vol_sr(weights)

SpecSample == InitSample /\ [][NextSample]_vars

\* The sampler's output the frontier is swept over: a table and the raw
\* weights drawn for it.
FrontierInputs ==
    { << TwoAssets, << << Zero, Fin(1, 2) >>, << Fin(1, 2), Zero >> >> >>,
      << TwoAssets, << << Fin(1, 2), Fin(1, 2) >> >> >>,
      << TwoAssets, << << Zero, Zero >> >> >>,
      << TwoAssets, << >> >>,
      << SingleAsset, << << Fin(1, 2) >>, << Zero >> >> >>,
      << MissingPrice, << << Zero, Fin(1, 2) >>, << Fin(1, 2), Fin(1, 2) >> >> >> }

InitFrontier ==
    \E in \in FrontierInputs :
        /\ selected_stocks = in[1]
        /\ df = SampleFrame(log_return(in[1]), in[2])
        /\ request = [op |-> "compute_random_allocations", n |-> Len(in[2])]
        /\ stats = NoStats
        /\ metrics = NoMetrics
        /\ frontier = NoFrontier
        /\ closest_allocation = NoSeries
        /\ cache = << >>
        /\ slsqp = << >>
        /\ solver_log = << >>
        /\ solver_calls = 0
        /\ returned = {}
        /\ calls = 0
        /\ raised = "none"

NextFrontier == \E n \in -1..MaxPoints : compute_frontier(n)

SpecFrontier == InitFrontier /\ [][NextFrontier]_vars

\* The tables the user may select, and the points of the stream posxy (line
\* 587): x = y = None before any tap, two numbers after a tap.
ClosestTables == {SingleAsset, TwoAssets}

TapValues == {Zero, One}

posxy == {<< None, None >>} \cup (TapValues \X TapValues)

InitClosest == \E t \in ClosestTables : Fresh(t)

NextClosest ==
    \E t \in ClosestTables, xy \in posxy : find_best_allocation(t, xy[1], xy[2])

SpecClosest == InitClosest /\ [][NextClosest]_vars

(***************************************************************************)
(* Properties of find_best_allocation's cache.                             *)
(***************************************************************************)
\* C1: over any sequence of find_best_allocation calls, two calls with the
\* same (log_return, desired volatility, desired return) key return the same
\* Series, and minimize has run exactly once per distinct key called: a
\* later call with a key already seen returns the stored Series without
\* running the solver.
C1_Memoized ==
    /\ \A r1, r2 \in returned : r1.key = r2.key => r1.value = r2.value
    /\ solver_calls = Cardinality({r.key : r \in returned})
    /\ \A r \in returned : r.key \in DOMAIN cache /\ cache[r.key] = r.value

\* A call was answered from the cache: more calls than solver runs, and the
\* last call ran no solver.
C1_SecondCallHit ==
    /\ request.op = "find_best_allocation"
    /\ calls > solver_calls
    /\ solver_calls >= 1
    /\ solver_log = << >>
    /\ closest_allocation.made

(***************************************************************************)
(* Properties of compute_frontier.                                         *)
(***************************************************************************)
\* C2: for every n >= 2 and every pattern of converged and non-converged
\* solves, compute_frontier returns exactly n entries, the i-th one for the
\* i-th grid target from the least to the greatest sampled return, no target
\* below an earlier one; the volatility of entry i is the objective at the
\* point the i-th solve stopped at, whether it converged or not.
C2_CompleteCurve ==
    (request.op = "compute_frontier" /\ request.n >= 2) =>
        /\ raised = "none"
        /\ frontier.made
        /\ Len(frontier.Return) = request.n
        /\ Len(frontier.Volatility) = request.n
        /\ Len(solver_log) = request.n
        /\ frontier.Return[1] = ReturnMin(df)
        /\ frontier.Return[request.n] = ReturnMax(df)
        /\ \A i, j \in 1..request.n :
               i < j => /\ ~Less(frontier.Return[j], frontier.Return[i])
                        /\ ReturnValues(df) # {} =>
                               LessEq(frontier.Return[i], frontier.Return[j])
        /\ \A i \in 1..request.n :
               /\ solver_log[i].problem.constraints[2].target = frontier.Return[i]
               /\ frontier.Volatility[i] =
                      get_volatility(df.log_return, slsqp[solver_log[i].problem].x)

\* A curve of at least two points, some solved to convergence and some not,
\* over strictly increasing targets.
C2_MixedConvergence ==
    /\ request.op = "compute_frontier"
    /\ request.n >= 2
    /\ frontier.made
    /\ \E i, j \in DOMAIN solver_log :
           ~solver_log[i].success /\ solver_log[j].success
    /\ Less(frontier.Return[1], frontier.Return[request.n])

\* C4: compute_frontier with n below 2 (1, 0 or negative) raises an error,
\* runs no solve and returns no curve.
C4_SmallCountRejected ==
    (request.op = "compute_frontier" /\ request.n < 2) =>
        /\ raised # "none"
        /\ solver_log = << >>
        /\ ~frontier.made

\* C5: a solve that did not converge raises nothing, and every frontier
\* entry computed from such a solve carries a converged flag that is FALSE.
C5_FailedSolveFlagged ==
    (request.op = "compute_frontier" /\ frontier.made) =>
        /\ raised = "none"
        /\ \A i \in DOMAIN solver_log :
               ~solver_log[i].success =>
                   /\ "converged" \in DOMAIN frontier
                   /\ frontier.converged[i] = FALSE

(***************************************************************************)
(* Properties of find_best_allocation's arguments.                         *)
(***************************************************************************)
\* C6: for every table, find_best_allocation(log_return, None, None) and
\* find_best_allocation(log_return, 0, 0) pose the same problem to minimize,
\* the one whose objective arguments and constraint targets are 0, and
\* return the same Series.
C6_AbsentIsZero ==
    /\ \A q \in DOMAIN slsqp :
           q.fun = "minimize_difference" =>
               /\ q.args[1].k # "none" /\ q.args[2].k # "none"
               /\ q.constraints[2].target = q.args[2]
               /\ q.constraints[3].target = q.args[1]
    /\ \A r \in returned :
           (r.key[2] = None /\ r.key[3] = None) =>
               \E q \in DOMAIN slsqp :
                   /\ q.log_return = r.key[1]
                   /\ q.args = << Zero, Zero >>
                   /\ r.value.weights = slsqp[q].x
    /\ \A r1, r2 \in returned :
           (/\ r1.key[1] = r2.key[1]
            /\ r1.key[2] = None /\ r1.key[3] = None
            /\ r2.key[2] = Zero /\ r2.key[3] = Zero) => r1.value = r2.value

\* The same table was queried with (None, None) and with (0, 0).
C6_BothQueried ==
    \E r1, r2 \in returned :
        /\ r1.key[1] = r2.key[1]
        /\ r1.key[2] = None /\ r1.key[3] = None
        /\ r2.key[2] = Zero /\ r2.key[3] = Zero
        /\ solver_calls = 2

(***************************************************************************)
(* Properties of the sampler and of the metrics.                           *)
(***************************************************************************)
\* C3: compute_random_allocations raises an error and returns no DataFrame
\* whenever num_ports <= 0, and returns exactly num_ports rows for every
\* num_ports > 0.
C3_CountChecked ==
    request.op = "compute_random_allocations" =>
        IF request.n <= 0
        THEN raised # "none" /\ ~df.made
        ELSE raised = "none" /\ df.made /\ Len(df.rows) = request.n

\* C7: for one asset whose log returns have zero variance, a Sharpe ratio
\* computed against the zero volatility is not returned: get_ret_vol_sr
\* raises an error instead.
C7_ZeroVolatilityRaises ==
    (/\ request.op = "get_ret_vol_sr"
     /\ ncols(selected_stocks) = 1
     /\ IsZero(get_volatility(log_return(selected_stocks), << One >>))) =>
        raised # "none" /\ ~metrics.made

\* C8: for one asset or more, every row of the sampler's DataFrame has
\* weights that sum to 1 and lie in [0, 1], whatever raw weights were
\* drawn, the all-zero draw included.
C8_WeightsNormalized ==
    (df.made /\ ncols(selected_stocks) >= 1) =>
        \A p \in DOMAIN df.rows :
            /\ Sum(df.rows[p].weights) = One
            /\ \A c \in DOMAIN df.rows[p].weights :
                   /\ LessEq(Zero, df.rows[p].weights[c])
                   /\ LessEq(df.rows[p].weights[c], One)

(***************************************************************************)
(* Properties of the statistics.                                           *)
(***************************************************************************)
\* C9: for a table of fewer than 2 rows or of no column the statistics are
\* not computed and an error is raised; for a table of R >= 2 rows the
\* log-return matrix the covariance is taken of has R - 1 rows.
C9_ShortTableRejected ==
    request.op = "estimate" =>
        IF nrows(selected_stocks) < 2 \/ ncols(selected_stocks) = 0
        THEN raised # "none" /\ ~stats.made
        ELSE stats.made /\ stats.observations = nrows(selected_stocks) - 1

\* C10: for a table whose every column keeps at least two finite log
\* returns after the first row, the mean of each column is the mean of its
\* finite log returns and its annualized variance is 252 times their
\* variance (ddof = 1): the entries that are not finite (from a zero or
\* missing price) are left out of both.
C10_NonFiniteExcluded ==
    LET FiniteReturns(c) ==
            SelectSeq(DropFirstRow(log_return(selected_stocks))[c],
                      LAMBDA x : x.k = "fin")
        Variance(col) ==
            LET avg == Average(col)
            IN  Div(Sum(Array([r \in 1..Len(col) |->
                                  Mul(Sub(col[r], avg), Sub(col[r], avg))])),
                    Fin(Len(col) - 1, 1))
    IN  (/\ stats.made
         /\ \A c \in 1..ncols(selected_stocks) : Len(FiniteReturns(c)) >= 2) =>
            \A c \in 1..ncols(selected_stocks) :
                /\ stats.mean_return[c] = Average(FiniteReturns(c))
                /\ stats.covariance[c][c] =
                       Mul(Variance(FiniteReturns(c)), Fin(TradingDays, 1))

(***************************************************************************)
(* Properties of the solver runs of one request.                           *)
(***************************************************************************)
\* C11: when a solve of compute_frontier does not converge, minimize is run
\* once more on the same objective and constraints from another initial
\* guess; no problem is run more than twice from different guesses, and a
\* solve that converged is not run again.
C11_RetriedOnce ==
    LET Retries(i) ==
            {j \in DOMAIN solver_log :
                /\ j # i
                /\ solver_log[j].problem.constraints =
                       solver_log[i].problem.constraints
                /\ solver_log[j].problem.x0 # solver_log[i].problem.x0}
    IN  request.op = "compute_frontier" =>
            \A i \in DOMAIN solver_log :
                IF solver_log[i].success
                THEN \A j \in Retries(i) : ~solver_log[j].success
                ELSE Cardinality(Retries(i)) = 1

\* C12: find_best_allocation pins the return and the volatility with
\* equality constraints only when both desired values are given and
\* non-zero; when either is None or 0 the problem posed to minimize has the
\* single equality constraint check_sum.
C12_ConstraintsRelaxed ==
    \A q \in DOMAIN slsqp :
        q.fun = "minimize_difference" =>
            IF IsZero(q.args[1]) \/ IsZero(q.args[2])
            THEN /\ Len(q.constraints) = 1
                 /\ q.constraints[1].fun = "check_sum"
            ELSE /\ Len(q.constraints) = 3
                 /\ q.constraints[2].target = q.args[2]
                 /\ q.constraints[3].target = q.args[1]

\* C13: for a table of exactly one asset and at least two log returns (so
\* that the variance is defined), the covariance the sampler uses is
\* the 1x1 matrix of 252 times the variance of the asset's log returns, the
\* one get_volatility uses, and the Volatility of every sampled row is
\* get_volatility of the row's weights.
C13_SingleAssetCovariance ==
    (df.made /\ ncols(selected_stocks) = 1 /\ nrows(selected_stocks) >= 3) =>
        /\ return_covariance(df.log_return) = AnnualCov(df.log_return)
        /\ \A p \in DOMAIN df.rows :
               df.rows[p].Volatility =
                   get_volatility(df.log_return, df.rows[p].weights)

\* C14: over any sequence of find_best_allocation calls the cache keeps
\* every entry it holds with its value unchanged, a call with a key not yet
\* held adds an entry for that key, and every entry, hence every value a
\* lookup returns, is the Series computed from the entry's own key: its
\* log returns and the solver's answer to the problem of its desired values.
C14_CacheOnlyGrows ==
    /\ [](\A key \in DOMAIN cache :
              /\ FindBestProblem(key[1], key[2], key[3]) \in DOMAIN slsqp
              /\ cache[key] =
                     BestSeries(key[1],
                                slsqp[FindBestProblem(key[1], key[2], key[3])]))
    /\ [](\A r \in returned : r.key \in DOMAIN cache /\ r.value = cache[r.key])
    /\ [][/\ \A key \in DOMAIN cache :
                 key \in DOMAIN cache' /\ cache'[key] = cache[key]
          /\ Cardinality(DOMAIN cache') <= Cardinality(DOMAIN cache) + 1
          /\ solver_calls' > solver_calls =>
                 Cardinality(DOMAIN cache') = Cardinality(DOMAIN cache) + 1]_vars

\* A call for a second table has added its entry next to the first one.
C14_TwoTablesCached ==
    /\ \E k1, k2 \in DOMAIN cache : k1[1] # k2[1]
    /\ solver_calls = 2
    /\ closest_allocation.made

====
